---- MODULE Spec2Model ----
(***************************************************************************)
(* Model of pymsyt (src/src/lib.rs): the two module functions export and   *)
(* create, their inner single-file conversions export_single and           *)
(* create_single, and the rayon par_iter().try_for_each fan-out over the    *)
(* globbed file list.                                                       *)
(*                                                                         *)
(* A path is a sequence of components; a component is the sequence of the  *)
(* pieces of its name between dots, so "a.msbt" is <<"a", "msbt">> and      *)
(* ".msbt" is <<"", "msbt">>.                                               *)
(***************************************************************************)
EXTENDS Integers, Sequences, FiniteSets, TLC

VARIABLES
    fn,        \* "export" or "create": which module function is called
    input,     \* the input argument, a path
    output,    \* the output argument: <<>> for None, <<p>> for Some(p)
    flag,      \* json (export) or big_endian (create)
    dirs,      \* filesystem: the directories that exist
    files,     \* filesystem: regular files, path -> content
    pc,        \* position of the call: "call", "batch", "single", "returned"
    paths,     \* the globbed Vec<PathBuf> (batch) or the one input (single)
    w,         \* per element of paths: the state of its conversion
    result,    \* what the call returned
    msbt,      \* the Document held by an Msbt object
    big_endian, \* the argument of Msbt.to_binary
    encoding,  \* the text encoding the codec writes: "Utf16" or "Utf8"
    data,      \* what Msbt.to_binary returned
    parsed,    \* what Msbt.from_binary returned
    cpc        \* position of the round trip: "new", "encoded", "decoded"

pvars == <<fn, input, output, flag, dirs, files, pc, paths, w, result>>
cvars == <<msbt, big_endian, encoding, data, parsed, cpc>>
vars == <<pvars, cvars>>

\* ---------------------------------------------------------------- bounds
MaxFiles == 3
\* the same bound for the runs that check termination
MaxFairFiles == 2
\* entries of a Document
MaxEntries == 2
\* content runs of a Document, over all its entries
MaxRuns == 2

\* ---------------------------------------------------------------- paths

Last(s) == s[Len(s)]
Front(s) == SubSeq(s, 1, Len(s) - 1)

IsPrefix(a, b) == Len(a) <= Len(b) /\ SubSeq(b, 1, Len(a)) = a

\* Path::join
Join(a, b) == a \o b

\* Path::strip_prefix(base).unwrap()
StripPrefix(p, base) == SubSeq(p, Len(base) + 1, Len(p))

\* Path::parent().unwrap()
Parent(p) == Front(p)

\* Path::file_stem / set_extension on one file name: a name without a dot,
\* and a name whose only dot is the leading one, have no extension.
HasExtension(name) == Len(name) > 2 \/ (Len(name) = 2 /\ name[1] # "")

NameWithExtension(name, ext) ==
    IF HasExtension(name) THEN Append(Front(name), ext) ELSE Append(name, ext)

\* Path::with_extension
WithExtension(p, ext) ==
    IF Len(p) = 0 THEN p ELSE Append(Front(p), NameWithExtension(Last(p), ext))

\* glob pattern "*.<ext>" on a file name (a leading dot is not special)
Matches(name, ext) == Len(name) >= 2 /\ Last(name) = ext

InExt(f) == IF f = "export" THEN "msbt" ELSE "msyt"
OutExt(f) == IF f = "export" THEN "msyt" ELSE "msbt"

\* ---------------------------------------------------------------- filesystem

is_dir(p) == p \in dirs
is_file_Any(p) == TRUE
is_file(p) == p \in DOMAIN files

Prefixes(p) == {SubSeq(p, 1, n) : n \in 1..Len(p)}

\* fs::create_dir_all fails when a component of the path is a regular file
CreateDirAllOk(p) == \A q \in Prefixes(p) : q \notin DOMAIN files
CreateDirAll(d, p) == d \cup Prefixes(p)

\* fs::File::create fails when the path is a directory (or has no parent
\* directory); on success the file exists and is empty
FileCreateOk(p) == p \notin dirs /\ (Len(p) > 1 => Parent(p) \in dirs)
FileCreate_Nothing(fls, p) == fls
FileCreate(fls, p) == [q \in DOMAIN fls \cup {p} |-> IF q = p THEN "empty" ELSE fls[q]]

\* the bytes a finished conversion leaves in its output
Written(f, fl) ==
    IF f = "export" THEN (IF fl THEN "json" ELSE "yaml")
    ELSE (IF fl THEN "msbt_be" ELSE "msbt_le")

\* writing goes through the handle File::create returned: it fills the file
\* that was created and creates nothing itself
FileWrite(fls, p, c) == [q \in DOMAIN fls |-> IF q = p THEN c ELSE fls[q]]

\* glob::glob(input.join("**/*.<ext>")): every entry below input, regular
\* file or directory, whose name matches
Glob(root, ext) ==
    {p \in DOMAIN files \cup dirs :
        IsPrefix(root, p) /\ Len(p) > Len(root) /\ Matches(Last(p), ext)}

\* ---------------------------------------------------------------- errors

NoMsg == [exc |-> "", outer |-> "", text |-> "", cause |-> "", names |-> {}]
Running == [status |-> "running", msg |-> NoMsg]
Ok == [status |-> "Ok", msg |-> NoMsg]
Err(m) == [status |-> "Err", msg |-> m]

\* MsytError::new_err(format!("<text>{:?}", e))
MsytErr(text, cause, names) ==
    [exc |-> "MsytError", outer |-> "", text |-> text, cause |-> cause, names |-> names]

\* the `?` on an io::Result: the io::Error becomes a Python OSError
OsErr(cause) ==
    [exc |-> "OSError", outer |-> "", text |-> "", cause |-> cause, names |-> {}]

\* "{} is not a valid file or folder"
InvalidInput(p) == MsytErr(" is not a valid file or folder", "", {p})

\* .map_err(|e| MsytError::new_err(format!("Failed to create ... files: {:?}", e)))
BatchErr(f, m) ==
    [m EXCEPT !.exc = "MsytError",
              !.outer = IF f = "export" THEN "Failed to create MSYT files: "
                        ELSE "Failed to create MSBT files: "]


\* ---------------------------------------------------------------- codec
\* Msbt::to_binary and Msbt::from_binary hand over to the msyt crate
\* (into_msbt_bytes, from_msbt_bytes).  That crate is not part of these
\* sources; the operators of this section follow the description of the
\* binary format: header, section framing, LBL1, ATR1, NLI1, TXT2.
\*
\* A Document is a sequence of entries in entry-index order, each
\* [label, attributes, style, content]; label and text are sequences of code
\* points, style is <<>> or <<id>>, content is a sequence of runs.

TextRun(s) == [t |-> "Text", s |-> s, group |-> 0, kind |-> 0, params |-> <<>>]
TagRun(g, k, ps) == [t |-> "Tag", s |-> <<>>, group |-> g, kind |-> k, params |-> ps]

\* the code unit that opens a control tag
Sentinel == 14
\* multiplier of the label hash
HashMul == 1170
\* bucket count of the label table
NumBuckets == 3
\* alignment of a section's payload
Align == 16
\* length of the file header
HeaderLen == 32
\* the only documented version
Version == 3

HeaderMagic == <<77, 115, 103, 83, 116, 100, 66, 110>>
LBL1 == <<76, 66, 76, 49>>
ATR1 == <<65, 84, 82, 49>>
TXT2 == <<84, 88, 84, 50>>
NLI1 == <<78, 76, 73, 49>>

Zeros(n) == [k \in 1..n |-> 0]

RECURSIVE Concat(_)
Concat(ss) == IF Len(ss) = 0 THEN <<>> ELSE Head(ss) \o Concat(Tail(ss))

\* Byte Cursor / Endian Codec
U16(n, be) == IF be THEN <<(n \div 256) % 256, n % 256>> ELSE <<n % 256, (n \div 256) % 256>>
U32(n, be) ==
    IF be THEN <<(n \div 16777216) % 256, (n \div 65536) % 256, (n \div 256) % 256, n % 256>>
    ELSE <<n % 256, (n \div 256) % 256, (n \div 65536) % 256, (n \div 16777216) % 256>>
RdU16_Little(b, i, be) == b[i + 1] * 256 + b[i]
RdU16(b, i, be) == IF be THEN b[i] * 256 + b[i + 1] ELSE b[i + 1] * 256 + b[i]
RdU32(b, i, be) ==
    IF be THEN ((b[i] * 256 + b[i + 1]) * 256 + b[i + 2]) * 256 + b[i + 3]
    ELSE ((b[i + 3] * 256 + b[i + 2]) * 256 + b[i + 1]) * 256 + b[i]
Fits(b, i, n) == i >= 1 /\ i + n - 1 <= Len(b)

\* Section Framing Layer
PadLen(n) == (Align - (n % Align)) % Align
Section(magic, payload, be) ==
    magic \o U32(Len(payload), be) \o Zeros(8) \o payload \o Zeros(PadLen(Len(payload)))

\* Header Codec: the byte-order mark is the value 0xFEFF in the file's order
Header(be, utf8, nsections, size) ==
    HeaderMagic \o U16(65279, be) \o <<0>> \o <<IF utf8 THEN 1 ELSE 0>>
        \o U16(Version, be) \o U16(nsections, be) \o Zeros(2) \o U32(size, be) \o Zeros(10)

\* Label Hash Table: h = h * 0x492 + code point in 32 bits, kept as the two
\* 16-bit halves <<high, low>>
HashStep(h, c) ==
    LET low == h[2] * HashMul + c
    IN <<(h[1] * HashMul + (low \div 65536)) % 65536, low % 65536>>

RECURSIVE HashFrom(_, _, _)
HashFrom(label, i, h) ==
    IF i > Len(label) THEN h ELSE HashFrom(label, i + 1, HashStep(h, label[i]))
Hash(label) == HashFrom(label, 1, <<0, 0>>)
\* hash mod bucket count
BucketOf(label) ==
    LET h == Hash(label)
    IN ((h[1] % NumBuckets) * (65536 % NumBuckets) + h[2]) % NumBuckets

EncodeLabels(doc, be) ==
    LET InBucket(k) == {j \in 1..Len(doc) : BucketOf(doc[j].label) = k}
        Tuple(j, k) == IF j \in InBucket(k)
                         THEN <<Len(doc[j].label)>> \o doc[j].label \o U32(j - 1, be)
                         ELSE <<>>
        Bucket(k) == U32(Cardinality(InBucket(k)), be)
                        \o Concat([j \in 1..Len(doc) |-> Tuple(j, k)])
    IN U32(NumBuckets, be) \o Concat([k \in 1..NumBuckets |-> Bucket(k - 1)])

\* Attribute Table: count, width, then the blobs in entry order
AttrWidth(doc) == IF Len(doc) = 0 THEN 0 ELSE Len(doc[1].attributes)
EncodeAttributes(doc, be) ==
    U32(Len(doc), be) \o U32(AttrWidth(doc), be)
        \o Concat([j \in 1..Len(doc) |-> doc[j].attributes])

\* Style Index: (entry index, style id) for the entries that have a style
Styled(doc) == {j \in 1..Len(doc) : Len(doc[j].style) = 1}
EncodeStyles(doc, be) ==
    U32(Cardinality(Styled(doc)), be)
        \o Concat([j \in 1..Len(doc) |->
              IF j \in Styled(doc) THEN U32(j - 1, be) \o U32(doc[j].style[1], be) ELSE <<>>])

\* Text & Control-Tag Codec: one code unit
Unit(u, utf8, be) ==
    IF ~utf8 THEN U16(u, be)
    ELSE IF u < 128 THEN <<u>>
    ELSE <<192 + (u \div 64), 128 + (u % 64)>>

EncodeRun(r, utf8, be) ==
    IF r.t = "Text" THEN Concat([i \in 1..Len(r.s) |-> Unit(r.s[i], utf8, be)])
    ELSE Unit(Sentinel, utf8, be) \o U16(r.group, be) \o U16(r.kind, be)
            \o U16(Len(r.params), be) \o r.params

EncodeContent(c, utf8, be) == Concat([i \in 1..Len(c) |-> EncodeRun(c[i], utf8, be)])

RECURSIVE SumLen(_, _)
SumLen(ss, n) == IF n = 0 THEN 0 ELSE Len(ss[n]) + SumLen(ss, n - 1)

\* count, offset table (from the start of the payload), then the entries
EncodeTexts(doc, utf8, be) ==
    LET texts == [j \in 1..Len(doc) |-> EncodeContent(doc[j].content, utf8, be)]
        base == 4 + 4 * Len(doc)
    IN U32(Len(doc), be)
        \o Concat([j \in 1..Len(doc) |-> U32(base + SumLen(texts, j - 1), be)])
        \o Concat(texts)

\* the Document invariants an encode refuses to break
DuplicateLabel(doc) == \E i, j \in 1..Len(doc) : i # j /\ doc[i].label = doc[j].label
MalformedAttributeTable(doc) == \E j \in 1..Len(doc) : Len(doc[j].attributes) # AttrWidth(doc)

\* Msyt::into_msbt_bytes
Encode(doc, be, utf8) ==
    IF DuplicateLabel(doc) THEN [ok |-> FALSE, bytes |-> <<>>, error |-> "DuplicateLabel"]
    ELSE IF MalformedAttributeTable(doc)
      THEN [ok |-> FALSE, bytes |-> <<>>, error |-> "MalformedAttributeTable"]
    ELSE
      LET sections == <<Section(LBL1, EncodeLabels(doc, be), be),
                        Section(ATR1, EncodeAttributes(doc, be), be)>>
                      \o (IF Styled(doc) = {} THEN <<>>
                          ELSE <<Section(NLI1, EncodeStyles(doc, be), be)>>)
                      \o <<Section(TXT2, EncodeTexts(doc, utf8, be), be)>>
          body == Concat(sections)
      IN [ok |-> TRUE,
          bytes |-> Header(be, utf8, Len(sections), HeaderLen + Len(body)) \o body,
          error |-> ""]

\* ---- decoding

\* the sections of a file, from position pos
RECURSIVE ReadSections(_, _, _, _)
ReadSections(b, pos, n, be) ==
    IF n = 0 THEN [ok |-> TRUE, list |-> <<>>]
    ELSE IF ~Fits(b, pos, 16) THEN [ok |-> FALSE, list |-> <<>>]
    ELSE LET len == RdU32(b, pos + 4, be)
             next == pos + 16 + len + PadLen(len)
         IN IF ~Fits(b, pos + 16, len) THEN [ok |-> FALSE, list |-> <<>>]
            ELSE LET rest == ReadSections(b, next, n - 1, be)
                 IN [ok |-> rest.ok,
                     list |-> <<[magic |-> SubSeq(b, pos, pos + 3),
                                 payload |-> SubSeq(b, pos + 16, pos + 15 + len)]>>
                              \o rest.list]

\* the tuples of one bucket, then the remaining buckets
RECURSIVE ReadLabels(_, _, _, _, _)
ReadLabels(p, pos, buckets, tuples, be) ==
    IF tuples > 0 THEN
        LET len == p[pos]
            label == SubSeq(p, pos + 1, pos + len)
            index == RdU32(p, pos + 1 + len, be)
        IN <<[label |-> label, index |-> index]>>
              \o ReadLabels(p, pos + 5 + len, buckets, tuples - 1, be)
    ELSE IF buckets = 0 THEN <<>>
    ELSE ReadLabels(p, pos + 4, buckets - 1, RdU32(p, pos, be), be)

DecodeLabels(p, be) == ReadLabels(p, 5, RdU32(p, 1, be), 0, be)

\* one entry's code units: text accumulates into the current run, the
\* sentinel opens a control tag, and a run is flushed at a tag and at the end
Flush(cur) == IF Len(cur) = 0 THEN <<>> ELSE <<TextRun(cur)>>

RECURSIVE DecodeRuns(_, _, _, _, _)
DecodeRuns(t, i, cur, utf8, be) ==
    IF i > Len(t) THEN [ok |-> TRUE, runs |-> Flush(cur)]
    ELSE
      LET wide == utf8 /\ t[i] >= 192
          width == IF utf8 THEN (IF wide THEN 2 ELSE 1) ELSE 2
      IN IF ~Fits(t, i, width) THEN [ok |-> FALSE, runs |-> <<>>]
         ELSE
           LET u == IF ~utf8 THEN RdU16(t, i, be)
                    ELSE IF wide THEN (t[i] - 192) * 64 + (t[i + 1] - 128)
                    ELSE t[i]
           IN IF u = Sentinel THEN
                IF ~Fits(t, i + width, 6) THEN [ok |-> FALSE, runs |-> <<>>]
                ELSE
                  LET group == RdU16(t, i + width, be)
                      kind == RdU16(t, i + width + 2, be)
                      plen == RdU16(t, i + width + 4, be)
                  IN IF ~Fits(t, i + width + 6, plen)
                       THEN [ok |-> FALSE, runs |-> <<>>]
                     ELSE
                       LET rest == DecodeRuns(t, i + width + 6 + plen, <<>>, utf8, be)
                       IN [ok |-> rest.ok,
                           runs |-> Flush(cur)
                              \o <<TagRun(group, kind,
                                          SubSeq(t, i + width + 6, i + width + 5 + plen))>>
                              \o rest.runs]
              ELSE DecodeRuns(t, i + width, Append(cur, u), utf8, be)

\* the bytes of entry j: from its offset to the next offset or the end
EntryBytes(p, j, n, be) ==
    LET from == RdU32(p, 5 + 4 * (j - 1), be)
        to == IF j < n THEN RdU32(p, 5 + 4 * j, be) ELSE Len(p)
    IN SubSeq(p, from + 1, to)

Find(list, magic) == {i \in 1..Len(list) : list[i].magic = magic}
Failure(e) == [ok |-> FALSE, doc |-> <<>>, error |-> e]

\* Msyt::from_msbt_bytes
Decode(b) ==
    IF ~Fits(b, 1, HeaderLen) THEN Failure("UnexpectedEof")
    ELSE IF SubSeq(b, 1, 8) # HeaderMagic THEN Failure("BadMagic")
    ELSE
      LET be == b[9] = 254
          utf8 == b[12] = 1
          secs == ReadSections(b, HeaderLen + 1, RdU16(b, 15, be), be)
      IN IF ~secs.ok THEN Failure("UnexpectedEof")
         ELSE IF \E m \in {LBL1, ATR1, TXT2} : Find(secs.list, m) = {}
           THEN Failure("MissingRequiredSection")
         ELSE
           LET Payload(m) == secs.list[CHOOSE i \in Find(secs.list, m) : TRUE].payload
               labels == DecodeLabels(Payload(LBL1), be)
               atr == Payload(ATR1)
               txt == Payload(TXT2)
               n == RdU32(txt, 1, be)
               width == RdU32(atr, 5, be)
               styles == IF Find(secs.list, NLI1) = {} THEN <<>> ELSE Payload(NLI1)
               nstyles == IF Len(styles) = 0 THEN 0 ELSE RdU32(styles, 1, be)
               StyleOf(j) ==
                   LET hits == {k \in 1..nstyles : RdU32(styles, 5 + 8 * (k - 1), be) = j - 1}
                   IN IF hits = {} THEN <<>>
                      ELSE <<RdU32(styles, 9 + 8 * ((CHOOSE k \in hits : TRUE) - 1), be)>>
               LabelOf(j) == {i \in 1..Len(labels) : labels[i].index = j - 1}
               runs == [j \in 1..n |-> DecodeRuns(EntryBytes(txt, j, n, be), 1, <<>>, utf8, be)]
           IN IF RdU32(atr, 1, be) # n THEN Failure("MalformedAttributeTable")
              ELSE IF Len(labels) # n \/ \E j \in 1..n : Cardinality(LabelOf(j)) # 1
                THEN Failure("MalformedLabelTable")
              ELSE IF \E j \in 1..n : ~runs[j].ok THEN Failure("InvalidControlTag")
              ELSE [ok |-> TRUE,
                    doc |-> [j \in 1..n |->
                        [label |-> labels[CHOOSE i \in LabelOf(j) : TRUE].label,
                         attributes |-> SubSeq(atr, 9 + width * (j - 1), 8 + width * j),
                         style |-> StyleOf(j),
                         content |-> runs[j].runs]],
                    error |-> ""]

NoBytes == [status |-> "none", value |-> <<>>, msg |-> NoMsg]
NoDoc == [status |-> "none", value |-> <<>>, msg |-> NoMsg]

\* no Msbt object is in use
CodecIdle ==
    /\ msbt = <<>>
    /\ big_endian = FALSE
    /\ encoding = "Utf16"
    /\ data = NoBytes
    /\ parsed = NoDoc
    /\ cpc = "idle"

\* ---------------------------------------------------------------- inputs

Root == << <<"in">> >>
OutArg == << <<"out">>, <<"x">> >>

FileA(e) == Join(Root, << <<"a", e>> >>)
FileB(e) == Join(Root, << <<"sub">>, <<"b", e>> >>)
FileDot(e) == Join(Root, << <<"", e>> >>)
FileDotDot(e) == Join(Root, << <<"", e, e>> >>)
DirD(e) == Join(Root, << <<"d", e>> >>)

Candidates(e) == {FileA(e), FileB(e), FileDot(e), FileDotDot(e)}

\* what an input file can hold
Contents(f) == IF f = "export" THEN {"msbt", "garbage"} ELSE {"yaml", "json", "garbage"}

\* Msyt::from_msbt_file succeeds on a well-formed MSBT file
DecodesAsMsbt(c) == c = "msbt"
\* serde_yaml::from_str, and the serde_json::from_str fallback
ParsesAsYaml(c) == c = "yaml"
ParsesAsJson(c) == c = "json"

Malformed(f, c) ==
    IF f = "export" THEN ~DecodesAsMsbt(c) ELSE ~(ParsesAsYaml(c) \/ ParsesAsJson(c))

\* ---------------------------------------------------------------- state

InitWith(n) ==
    /\ fn \in {"export", "create"}
    /\ flag \in BOOLEAN
    /\ input \in {Root, FileA(InExt(fn))}
    /\ output \in {<<>>, <<OutArg>>}
    /\ \E present \in SUBSET Candidates(InExt(fn)) :
       \E withDir \in BOOLEAN :
       \E obstacle \in {"none", "file", "dir"} :
         /\ Cardinality(present) + (IF withDir THEN 1 ELSE 0) \in 0..n
         /\ input # Root => present \subseteq {input} /\ ~withDir
         /\ files \in [present \cup (IF obstacle = "file" THEN {<< <<"out">> >>} ELSE {})
                         -> Contents(fn)]
         /\ obstacle = "file" => files[<< <<"out">> >>] = "garbage"
         /\ \A p \in present : files[p] = "json" => p = FileA(InExt(fn))
         /\ dirs = {Root}
                \cup (IF FileB(InExt(fn)) \in present THEN {Front(FileB(InExt(fn)))} ELSE {})
                \cup (IF withDir THEN {DirD(InExt(fn))} ELSE {})
                \cup (IF obstacle = "dir" THEN {FileA(OutExt(fn))} ELSE {})
    /\ pc = "call"
    /\ paths = {}
    /\ w = [p \in {} |-> 0]
    /\ result = Running
    /\ CodecIdle

Init == InitWith(MaxFiles)

Pending(out) == [pc |-> "pending", out |-> out, err |-> NoMsg]

Terminal(s) == s \in {"ok", "failed", "skipped"}
InFlight(s) == s \in {"mkdir", "open", "write"}

Failed == {p \in paths : w[p].pc = "failed"}

AllDone_FirstError == Failed # {} \/ \A p \in paths : Terminal(w[p].pc)
\* the join at the end of try_for_each: every item has been run or dropped
AllDone == \A p \in paths : Terminal(w[p].pc)

\* the output path the batch closure hands to the single-file conversion
BatchOutput(root, target, p, ext) ==
    WithExtension(Join(target, StripPrefix(p, root)), ext)

\* export / create up to the fan-out (lib.rs 57-69, 83-95)
Dispatch ==
    /\ pc = "call"
    /\ UNCHANGED <<fn, input, output, flag, files>>
    /\ UNCHANGED cvars
    /\ IF is_dir(input) THEN
         LET target == IF Len(output) = 1 THEN output[1] ELSE input IN
         IF CreateDirAllOk(target) THEN
           /\ dirs' = CreateDirAll(dirs, target)
           /\ paths' = Glob(input, InExt(fn))
           /\ w' = [p \in paths' |-> Pending(BatchOutput(input, target, p, OutExt(fn)))]
           /\ pc' = "batch"
           /\ result' = result
         ELSE
           /\ result' = Err(MsytErr("Could not create output folder: ", "io", {}))
           /\ pc' = "returned"
           /\ UNCHANGED <<dirs, paths, w>>
       ELSE IF is_file(input) THEN
         LET out == IF Len(output) = 1 THEN output[1]
                    ELSE WithExtension(input, OutExt(fn)) IN
         /\ paths' = {input}
         /\ w' = [p \in paths' |-> Pending(out)]
         /\ pc' = "single"
         /\ UNCHANGED <<dirs, result>>
       ELSE
         /\ result' = Err(InvalidInput(input))
         /\ pc' = "returned"
         /\ UNCHANGED <<dirs, paths, w>>

StartOutcome_Unchecked(ok) == "mkdir"
\* where a conversion goes after reading and decoding its input
StartOutcome(ok) == IF ok THEN "mkdir" ELSE "failed"

\* the error of the first statements of export_single / create_single.
\* This crate formats the codec's error with {:?} and adds no path of its
\* own; msyt's error is taken to carry the path it was given, the reading
\* most favourable to the message.  The io::Error of read_to_string and the
\* serde_json error carry no path (the serde_yaml error is dropped).
ReadError(f, p, readable) ==
    IF f = "export"
      THEN MsytErr("Could not read MSBT file: ", IF readable THEN "codec" ELSE "io", {p})
    ELSE IF ~readable THEN OsErr("io")
    ELSE MsytErr("Could not parse text as valid MSYT YAML or JSON: ", "json", {})

\* The first statements of export_single / create_single: read the input and
\* decode or parse it.
Start(p) ==
    /\ pc \in {"batch", "single"}
    /\ w[p].pc = "pending"
    /\ UNCHANGED <<fn, input, output, flag, dirs, files, pc, paths, result>>
    /\ UNCHANGED cvars
    /\ LET readable == is_file(p)
           ok == readable /\ ~Malformed(fn, files[p])
       IN w' = [w EXCEPT ![p].pc = StartOutcome(ok),
                         ![p].err = IF ok THEN NoMsg ELSE ReadError(fn, p, readable)]

\* fs::create_dir_all(output.parent().unwrap())
Mkdir(p) ==
    /\ pc \in {"batch", "single"}
    /\ w[p].pc = "mkdir"
    /\ UNCHANGED <<fn, input, output, flag, files, pc, paths, result>>
    /\ UNCHANGED cvars
    /\ LET parent == Parent(w[p].out) IN
       IF CreateDirAllOk(parent) THEN
         /\ dirs' = CreateDirAll(dirs, parent)
         /\ w' = [w EXCEPT ![p].pc = "open"]
       ELSE
         /\ dirs' = dirs
         /\ w' = [w EXCEPT ![p].pc = "failed",
                           ![p].err = MsytErr(IF fn = "export"
                               THEN "Could not create parent folder for MSYT file: "
                               ELSE "Could not create parent folder for MSBT file: ",
                               "io", {})]

\* fs::File::create(&output)?
Open(p) ==
    /\ pc \in {"batch", "single"}
    /\ w[p].pc = "open"
    /\ UNCHANGED <<fn, input, output, flag, dirs, pc, paths, result>>
    /\ UNCHANGED cvars
    /\ IF FileCreateOk(w[p].out) THEN
         /\ files' = FileCreate(files, w[p].out)
         /\ w' = [w EXCEPT ![p].pc = "write"]
       ELSE
         /\ files' = files
         /\ w' = [w EXCEPT ![p].pc = "failed", ![p].err = OsErr("io")]

WriteText(f, fl) ==
    IF f = "export" THEN (IF fl THEN "Could not serialize MSBT to JSON: "
                          ELSE "Could not serialize MSBT to YAML: ")
    ELSE "Could not write MSBT file: "

\* serde_json::to_writer / serde_yaml::to_writer / write_as_msbt: the sink
\* may fail part-way, which leaves the created file behind
Write(p) ==
    /\ pc \in {"batch", "single"}
    /\ w[p].pc = "write"
    /\ UNCHANGED <<fn, input, output, flag, dirs, pc, paths, result>>
    /\ UNCHANGED cvars
    /\ \/ /\ files' = FileWrite(files, w[p].out, Written(fn, flag))
          /\ w' = [w EXCEPT ![p].pc = "ok"]
       \/ /\ files' = files
          /\ w' = [w EXCEPT ![p].pc = "failed",
                            ![p].err = MsytErr(WriteText(fn, flag), "io", {})]

\* try_for_each stops handing out items once some item has failed
Skip(p) ==
    /\ pc = "batch"
    /\ w[p].pc = "pending"
    /\ Failed # {}
    /\ w' = [w EXCEPT ![p].pc = "skipped"]
    /\ UNCHANGED <<fn, input, output, flag, dirs, files, pc, paths, result>>
    /\ UNCHANGED cvars

CallResult_Swallow(mode, f, errs) ==
    IF errs = {} \/ mode = "batch" THEN {Ok} ELSE {Err(e) : e \in errs}
\* what the call returns once the conversions are over
CallResult(mode, f, errs) ==
    IF errs = {} THEN {Ok}
    ELSE IF mode = "batch" THEN {Err(BatchErr(f, e)) : e \in errs}
    ELSE {Err(e) : e \in errs}

Return ==
    /\ pc \in {"batch", "single"}
    /\ AllDone
    /\ result' \in CallResult(pc, fn, {w[p].err : p \in Failed})
    /\ pc' = "returned"
    /\ UNCHANGED <<fn, input, output, flag, dirs, files, paths, w>>
    /\ UNCHANGED cvars

Next ==
    \/ Dispatch
    \/ \E p \in paths : Start(p)
    \/ \E p \in paths : Mkdir(p)
    \/ \E p \in paths : Open(p)
    \/ \E p \in paths : Write(p)
    \/ \E p \in paths : Skip(p)
    \/ Return

Spec == Init /\ [][Next]_vars

\* rayon runs every item it has handed out to completion and the call
\* returns when the pool is idle
FairInit == InitWith(MaxFairFiles)
FairSpec == FairInit /\ [][Next]_vars /\ WF_vars(Next)

TypeOK ==
    /\ pc \in {"idle", "call", "batch", "single", "returned"}
    /\ result.status \in {"running", "Ok", "Err"}


\* ---------------------------------------------------------------- Msbt

\* match big_endian { true => Endianness::Big, false => Endianness::Little }
Endianness(big) == IF big THEN "Big" ELSE "Little"

\* Msbt::to_binary
ToBinary(doc, big, u8) ==
    LET r == Encode(doc, Endianness(big) = "Big", u8)
    IN IF r.ok THEN [status |-> "Ok", value |-> r.bytes, msg |-> NoMsg]
       ELSE [status |-> "Err", value |-> <<>>,
             msg |-> MsytErr("Failed to serialize MSBT file: ", r.error, {})]

\* Msbt::from_binary
FromBinary(b) ==
    LET r == Decode(b)
    IN IF r.ok THEN [status |-> "Ok", value |-> r.doc, msg |-> NoMsg]
       ELSE [status |-> "Err", value |-> <<>>,
             msg |-> MsytErr("Failed to parse MSBT file: ", r.error, {})]

\* the labels, runs, attribute blobs and style ids Documents are built from
LabelSet == {<<>>, <<65>>, <<66, 65>>}
RunSet == {TextRun(<<233, 97>>), TextRun(<<>>), TextRun(<<Sentinel>>), TagRun(0, 3, <<0, 1>>)}
AttributeSet == {<<>>, <<7>>}
StyleId == 5

RunSeqs(n) == UNION {[1..k -> RunSet] : k \in 0..n}

\* the contents of n entries with at most budget runs in all
RECURSIVE DocContents(_, _)
DocContents(n, budget) ==
    IF n = 0 THEN {<<>>}
    ELSE UNION {{<<c>> \o rest : rest \in DocContents(n - 1, budget - Len(c))} :
                    c \in RunSeqs(budget)}

\* a Document: unique labels, one attribute width
Document(labels, attr, styled, contents) ==
    [j \in 1..Len(labels) |-> [label |-> labels[j],
                               attributes |-> attr,
                               style |-> IF j \in styled THEN <<StyleId + j>> ELSE <<>>,
                               content |-> contents[j]]]

\* an Msbt object, about to be serialized and parsed back
CodecInit ==
    /\ \E n \in 0..MaxEntries :
       \E labels \in {f \in [1..n -> LabelSet] : \A i, j \in 1..n : i # j => f[i] # f[j]} :
       \E attr \in AttributeSet :
       \E styled \in {{}, {n} \cap (1..n)} :
       \E contents \in DocContents(n, MaxRuns) :
         msbt = Document(labels, attr, styled, contents)
    /\ big_endian \in BOOLEAN
    /\ encoding \in {"Utf16", "Utf8"}
    /\ data = NoBytes
    /\ parsed = NoDoc
    /\ cpc = "new"
    /\ fn = "export"
    /\ flag = FALSE
    /\ input = Root
    /\ output = <<>>
    /\ dirs = {}
    /\ files = [p \in {} |-> ""]
    /\ pc = "idle"
    /\ paths = {}
    /\ w = [p \in {} |-> 0]
    /\ result = Running

to_binary ==
    /\ cpc = "new"
    /\ data' = ToBinary(msbt, big_endian, encoding = "Utf8")
    /\ cpc' = "encoded"
    /\ UNCHANGED <<msbt, big_endian, encoding, parsed>>
    /\ UNCHANGED pvars

from_binary ==
    /\ cpc = "encoded"
    /\ data.status = "Ok"
    /\ parsed' = FromBinary(data.value)
    /\ cpc' = "decoded"
    /\ UNCHANGED <<msbt, big_endian, encoding, data>>
    /\ UNCHANGED pvars

CodecNext == to_binary \/ from_binary

CodecSpec == CodecInit /\ [][CodecNext]_vars

\* ---------------------------------------------------------------- properties

\* the call was a batch conversion: input is a directory
Batch == input \in dirs
\* the target root of a batch conversion
Target == IF Len(output) = 1 THEN output[1] ELSE input
\* the input of p cannot be read, decoded or parsed
BadInput(p) == p \notin DOMAIN files \/ Malformed(fn, files[p])
Exists(p) == p \in DOMAIN files

\* C1: a batch over N matching files of which exactly one is malformed
\* returns one failure that names the malformed file, and the outputs of the
\* other N-1 files exist, for every scheduling.
C1_OneMalformedOthersConverted ==
    \A bad \in paths :
        ( /\ pc = "returned"
          /\ Batch
          /\ \A p \in paths : Exists(p)
          /\ \A p \in paths : Malformed(fn, files[p]) <=> p = bad
          /\ Failed \subseteq {bad} )
        => /\ result.status = "Err"
           /\ result.msg.names = {bad}
           /\ \A p \in paths \ {bad} : Exists(w[p].out)

\* C2: when a conversion of a batch fails the batch call returns a failure,
\* and every output a conversion finished writing is on disk, during the call
\* and after it returned.
C2_FailureKeepsWrittenOutputs ==
    Batch =>
        /\ (pc = "returned" /\ Failed # {}) => result.status = "Err"
        /\ \A p \in paths : w[p].pc = "ok" => Exists(w[p].out)

C2_Witness ==
    /\ Batch
    /\ pc = "returned"
    /\ result.status = "Err"
    /\ \E p \in paths : w[p].pc = "failed"
    /\ \E p \in paths : w[p].pc = "ok" /\ Exists(w[p].out)

\* C3: a call whose input is neither a file nor a directory returns the
\* invalid-input-path error in its first step and changes nothing on the
\* filesystem, whatever the output argument.
C3_InvalidInputNoEffect ==
    [][(pc = "call" /\ input \notin dirs /\ input \notin DOMAIN files)
        => /\ pc' = "returned"
           /\ result' = Err(InvalidInput(input))
           /\ UNCHANGED <<dirs, files>>]_vars

C3_Witness ==
    /\ pc = "returned"
    /\ input \notin dirs /\ input \notin DOMAIN files
    /\ Len(output) = 1
    /\ result = Err(InvalidInput(input))
    /\ output[1] \notin dirs

\* the path R/<rel>.<in-ext> mapped to T/<rel>.<out-ext>
Mirrored(p) ==
    Append(Join(Target, StripPrefix(Front(p), input)), Append(Front(Last(p)), OutExt(fn)))

\* C4: every discovered file R/<rel>.<in-ext> is converted to exactly
\* T/<rel>.<out-ext>, and the parent directory of that path exists once the
\* output file has been created.
C4_MirroredOutputPath ==
    (Batch /\ pc \in {"batch", "returned"}) =>
        \A p \in paths : Exists(p) =>
            /\ w[p].out = Mirrored(p)
            /\ w[p].pc \in {"write", "ok"} => Parent(w[p].out) \in dirs

\* C5: a conversion in flight is never dropped, the call returns only when no
\* conversion is in flight, and nothing is written after the call returned.
C5_NoCancelNoLateWrite ==
    [][/\ \A p \in paths : InFlight(w[p].pc) => w'[p].pc \in {"mkdir", "open", "write", "ok", "failed"}
       /\ pc' = "returned" => \A p \in paths : ~InFlight(w[p].pc)
       /\ pc = "returned" => UNCHANGED <<dirs, files, w>>]_vars

C5_Witness ==
    /\ pc = "returned"
    /\ Batch
    /\ \E p \in paths : w[p].pc = "failed"
    /\ \E p \in paths : w[p].pc = "ok"
    /\ \A p \in paths : w[p].pc # "skipped"

\* C6: every failure a conversion returns names the path of the file whose
\* conversion failed and the cause of that failure.
C6_FailureNamesFileAndCause ==
    (pc = "returned" /\ Failed # {}) =>
        /\ result.status = "Err"
        /\ \E p \in Failed :
            /\ p \in result.msg.names
            /\ result.msg.cause = w[p].err.cause
            /\ result.msg.cause # ""

\* C7: distinct discovered inputs get distinct output paths, and no output
\* path is the path of a discovered input.
C7_ExclusiveFiles ==
    (Batch /\ pc \in {"batch", "returned"}) =>
        /\ \A p, q \in paths : p # q => w[p].out # w[q].out
        /\ \A p, q \in paths : w[p].out # q

\* C9: a conversion whose input cannot be read, decoded or parsed never
\* reaches the output side: its step changes neither directories nor files.
C9_BadInputLeavesOutputAlone ==
    [][\A p \in paths : BadInput(p) =>
        /\ w'[p].pc \in {"pending", "failed", "skipped"}
        /\ w'[p] # w[p] => UNCHANGED <<dirs, files>>]_vars

C9_Witness ==
    /\ pc = "returned"
    /\ \E p \in paths :
        /\ BadInput(p)
        /\ w[p].pc = "failed"
        /\ ~Exists(w[p].out)
        /\ Parent(w[p].out) \notin dirs

\* the entries under the input root that match the input extension
Discovered == Glob(input, InExt(fn))
AllConverted == \A p \in Discovered : p \in paths /\ w[p].pc = "ok"

\* C10 as stated: a batch conversion always returns, it returns success
\* exactly when the conversion of every discovered file succeeded, and on
\* success every discovered input has its output file.
C10_ReturnsSuccessIffAllConverted ==
    /\ [](Batch /\ pc = "returned" =>
            /\ result.status = "Ok" <=> AllConverted
            /\ result.status = "Ok" => \A p \in Discovered : Exists(w[p].out))
    /\ (Batch /\ pc = "call") ~> (pc = "returned")

\* C10 amended: a batch conversion always returns, it returns success exactly
\* when the output root could be created and the conversion of every
\* discovered file succeeded, and on success every discovered input has its
\* output file.
C10_ReturnsSuccessIffRootAndAllConverted ==
    /\ [](Batch /\ pc = "returned" =>
            /\ result.status = "Ok" <=> (Target \in dirs /\ AllConverted)
            /\ result.status = "Ok" => \A p \in Discovered : Exists(w[p].out))
    /\ (Batch /\ pc = "call") ~> (pc = "returned")

C10_Witness ==
    /\ Batch
    /\ pc = "returned"
    /\ result.status = "Ok"
    /\ Cardinality(paths) >= 2
    /\ \A p \in paths : w[p].pc = "ok" /\ Exists(w[p].out)


NonEmptyLabels(doc) == \A j \in 1..Len(doc) : Len(doc[j].label) > 0

RoundTrips ==
    /\ cpc = "encoded" => data.status = "Ok"
    /\ cpc = "decoded" => parsed.status = "Ok" /\ parsed.value = msbt

\* C8 as stated: for any Document with non-empty labels, to_binary followed
\* by from_binary gives back a Document equal to the original, in both byte
\* orders and both text encodings.
C8_RoundTripAnyDocument == NonEmptyLabels(msbt) => RoundTrips

\* content as a decode produces it: no empty text run, no two text runs in a
\* row, no text holding the code unit that opens a control tag
CanonicalContent(c) ==
    /\ \A i \in 1..Len(c) : c[i].t = "Text" =>
          /\ Len(c[i].s) > 0
          /\ \A k \in 1..Len(c[i].s) : c[i].s[k] # Sentinel
    /\ \A i \in 1..(Len(c) - 1) : ~(c[i].t = "Text" /\ c[i + 1].t = "Text")

Canonical(doc) == \A j \in 1..Len(doc) : CanonicalContent(doc[j].content)

\* C8 amended: for any Document with non-empty labels whose content has no
\* empty text run, no two adjacent text runs and no text containing the
\* code unit 0x000E, to_binary followed by from_binary gives back a Document
\* equal to the original, in both byte orders and both text encodings.
C8_RoundTripCanonicalDocument == (NonEmptyLabels(msbt) /\ Canonical(msbt)) => RoundTrips

C8_Witness ==
    /\ cpc = "decoded"
    /\ big_endian /\ encoding = "Utf8"
    /\ Len(msbt) = 2
    /\ NonEmptyLabels(msbt) /\ Canonical(msbt)
    /\ msbt[1].content = <<TextRun(<<233, 97>>), TagRun(0, 3, <<0, 1>>)>>
    /\ msbt[2].style # <<>>
    /\ parsed.status = "Ok" /\ parsed.value = msbt

====
